---- MODULE Spec2Model ----
(***************************************************************************)
(* A model of the input accessors of libfetchers: the sandboxed filesystem *)
(* accessor (FSInputAccessorImpl), the NAR serialiser                      *)
(* InputAccessor::dumpPath, and the process-wide accessor counter.         *)
(*                                                                         *)
(* A CanonPath is a sequence of path segments (the root "/" is <<>>).      *)
(* The physical filesystem is a function from absolute paths to nodes.     *)
(***************************************************************************)
EXTENDS Integers, Sequences, FiniteSets, TLC

VARIABLES
    linkTarget,     \* physical fs: the target of the symlink D/link
    fileLen,        \* physical fs: the size of D/run.sh
    fileExec,       \* physical fs: S_IXUSR of D/run.sh
    dirOrder,       \* physical fs: the order in which readdir() enumerates
    allowedPaths,   \* FSInputAccessorImpl::allowedPaths (optional set)
    deniedGrants,   \* history: paths given to allowPath while they were denied
    last,           \* the last accessor call and what it returned
    rejected,       \* dumpPath: the paths the PathFilter rejects
    dumped,         \* the last dumpPath call and what it wrote
    nextNumber,     \* static std::atomic<size_t> nextNumber
    number,         \* InputAccessor::number, per constructed accessor
    pc,             \* per thread: position inside InputAccessor()
    reg,            \* per thread: the value ++nextNumber returned
    cur,            \* per thread: the accessor under construction
    built,          \* accessors whose constructor has returned
    builtBefore     \* history: per accessor, `built` when its constructor began

vars == <<linkTarget, fileLen, fileExec, dirOrder, allowedPaths, deniedGrants,
          last, rejected, dumped, nextNumber, number, pc, reg, cur, built,
          builtBefore>>

fsVars == <<linkTarget, fileLen, fileExec, dirOrder>>
accVars == <<allowedPaths, deniedGrants, last>>
dumpVars == <<rejected, dumped>>
ctrVars == <<nextNumber, number, pc, reg, cur, built, builtBefore>>

-----------------------------------------------------------------------------
(* Bounds *)

\* symlinks followed before path resolution gives up (1024 in canonPath)
MaxFollow == 3
\* largest allow-list the model builds
MaxAllowed == 2
\* largest size of D/run.sh
MaxLen == 9
\* threads constructing accessors
NumThreads == 2
\* accessors constructed in all
MaxAccessors == 4

-----------------------------------------------------------------------------
(* CanonPath *)

Front(s) == SubSeq(s, 1, Len(s) - 1)
Last(s) == s[Len(s)]

\* CanonPath::isWithin: parent is a segment-wise prefix of path
IsWithin(path, parent) ==
    /\ Len(parent) <= Len(path)
    /\ SubSeq(path, 1, Len(parent)) = parent

\* CanonPath::removePrefix
RemovePrefix(path, prefix) == SubSeq(path, Len(prefix) + 1, Len(path))

\* CanonPath::isAllowed: the path is an allowed path, an ancestor of one
\* (so that it can be descended into), or lies inside one.
CanonIsAllowed(path, allowed) ==
    \E a \in allowed : IsWithin(a, path) \/ IsWithin(path, a)

-----------------------------------------------------------------------------
(* The physical filesystem *)

Root == <<"d">>

Content(n) == [i \in 1..n |-> 100 + i]

Node(type, exec, data, target) ==
    [type |-> type, exec |-> exec, data |-> data, target |-> target]

DirNode == Node("dir", FALSE, <<>>, <<>>)
RegNode(exec, data) == Node("reg", exec, data, <<>>)
LnkNode(target) == Node("lnk", FALSE, <<>>, target)
FifoNode == Node("fifo", FALSE, <<>>, <<>>)

\* where D/link may point: a missing file, a file and a directory inside D,
\* a file outside D, and itself
LinkTargets ==
    { <<"d", "target">>, <<"d", "run.sh">>, <<"d", "sub">>, <<"e", "x">>,
      <<"d", "link">> }

PhysFs(target, len, exec) ==
       (<<>> :> DirNode)
    @@ (<<"d">> :> DirNode)
    @@ (<<"d", "run.sh">> :> RegNode(exec, Content(len)))
    @@ (<<"d", "link">> :> LnkNode(target))
    @@ (<<"d", "sub">> :> DirNode)
    @@ (<<"d", "sub", "f">> :> RegNode(FALSE, Content(8)))
    @@ (<<"d", "sub", "dev">> :> FifoNode)
    @@ (<<"e">> :> DirNode)
    @@ (<<"e", "x">> :> RegNode(FALSE, Content(3)))

Fs == PhysFs(linkTarget, fileLen, fileExec)

\* the accessor-relative paths the callers use
Paths ==
    { <<>>, <<"run.sh">>, <<"link">>, <<"sub">>, <<"target">>,
      <<"sub", "f">>, <<"sub", "dev">>, <<"link", "f">>, <<"link", "dev">> }

\* bytes of the entry names, for std::string's operator<
NameBytes ==
       ("dev" :> <<100, 101, 118>>)
    @@ ("f" :> <<102>>)
    @@ ("link" :> <<108, 105, 110, 107>>)
    @@ ("run.sh" :> <<114, 117, 110, 46, 115, 104>>)
    @@ ("sub" :> <<115, 117, 98>>)
    @@ ("target" :> <<116, 97, 114, 103, 101, 116>>)
    @@ ("x" :> <<120>>)

RECURSIVE BytesLess(_, _)
BytesLess(a, b) ==
    IF b = <<>> THEN FALSE
    ELSE IF a = <<>> THEN TRUE
    ELSE IF Head(a) # Head(b) THEN Head(a) < Head(b)
    ELSE BytesLess(Tail(a), Tail(b))

\* std::string operator<
StrLess(a, b) == BytesLess(NameBytes[a], NameBytes[b])

-----------------------------------------------------------------------------
(* Events: what a call did, in order *)

FsEv(op, path) == [kind |-> "fs", op |-> op, path |-> path, ok |-> TRUE]
CheckEv(path, ok) == [kind |-> "check", op |-> "isAllowed", path |-> path, ok |-> ok]

-----------------------------------------------------------------------------
(* util: canonPath(path, resolveSymlinks = true), lstat, readFile, ... *)

\* CanonPath::resolveSymlinks: walk the components, lstat each prefix (a
\* missing one raises), and restart from the target of every symlink met.
RECURSIVE ResolveFrom(_, _, _, _, _)
ResolveFrom(fs, s, rest, fuel, ops) ==
    IF rest = <<>> THEN [ok |-> TRUE, path |-> s, ops |-> ops]
    ELSE LET c == Append(s, Head(rest))
             ops1 == Append(ops, FsEv("lstat", c))
         IN  IF c \notin DOMAIN fs
             THEN [ok |-> FALSE, path |-> <<>>, ops |-> ops1]
             ELSE IF fs[c].type = "lnk"
             THEN IF fuel = 0
                  THEN [ok |-> FALSE, path |-> <<>>, ops |-> ops1]
                  ELSE ResolveFrom(fs, <<>>, fs[c].target \o Tail(rest),
                                   fuel - 1, Append(ops1, FsEv("readlink", c)))
             ELSE ResolveFrom(fs, c, Tail(rest), fuel, ops1)

ResolveSymlinks(fs, p) == ResolveFrom(fs, <<>>, p, MaxFollow, <<>>)

\* the kernel's lookup of a path: every component but the last is followed,
\* the last one only when followLast
OsLookup(fs, p, followLast) ==
    IF p = <<>> THEN [ok |-> TRUE, path |-> <<>>]
    ELSE IF followLast
    THEN LET r == ResolveFrom(fs, <<>>, p, MaxFollow, <<>>)
         IN  [ok |-> r.ok, path |-> r.path]
    ELSE LET r == ResolveFrom(fs, <<>>, Front(p), MaxFollow, <<>>)
             c == Append(r.path, Last(p))
         IN  IF r.ok /\ c \in DOMAIN fs
             THEN [ok |-> TRUE, path |-> c]
             ELSE [ok |-> FALSE, path |-> <<>>]

\* the names in directory d of fs
ChildNames(fs, d) ==
    { Last(q) : q \in { x \in DOMAIN fs : Len(x) = Len(d) + 1 /\ Front(x) = d } }

RECURSIVE SortedNames(_)
SortedNames(S) ==
    IF S = {} THEN <<>>
    ELSE LET m == CHOOSE x \in S : \A y \in S \ {x} : StrLess(x, y)
         IN  <<m>> \o SortedNames(S \ {m})

\* readdir() order: the i-th name in sorted order comes at position order[i]
Orders == Permutations(1..3)

Enumerate(S, order) ==
    LET sorted == SortedNames(S)
        n == Len(sorted)
        key(i) == order[i]
        pos(i) == Cardinality({ j \in 1..n : key(j) < key(i) }) + 1
    IN  [k \in 1..n |-> sorted[CHOOSE i \in 1..n : pos(i) = k]]

-----------------------------------------------------------------------------
(* Results of accessor calls *)

Result(status, type, exec, data, entries, target, exists, trace) ==
    [status |-> status, type |-> type, exec |-> exec, data |-> data,
     entries |-> entries, target |-> target, exists |-> exists,
     trace |-> trace]

Failed(status, trace) ==
    Result(status, "", FALSE, <<>>, <<>>, <<>>, FALSE, trace)

NoResult == Failed("none", <<>>)

-----------------------------------------------------------------------------
(* FSInputAccessorImpl *)

NoAllowList == [has |-> FALSE, set |-> {}]
AllowList(S) == [has |-> TRUE, set |-> S]

\* makeAbsPath with the symlink resolution left out
MakeAbsPathUnresolved(path) ==
    [path |-> Root \o path, ops |-> <<>>]

\* FSInputAccessorImpl::makeAbsPath
MakeAbsPath(path) ==
    LET p == Root \o path
        r == ResolveSymlinks(Fs, p)
    IN  [path |-> IF r.ok THEN r.path ELSE p, ops |-> r.ops]

\* isAllowed that looks the absolute path up in the allow-list
IsAllowedAbsolute(absPath) ==
    IF ~IsWithin(absPath, Root) THEN FALSE
    ELSE IF allowedPaths.has /\ ~CanonIsAllowed(absPath, allowedPaths.set)
    THEN FALSE
    ELSE TRUE

\* FSInputAccessorImpl::isAllowed
IsAllowed(absPath) ==
    IF ~IsWithin(absPath, Root) THEN FALSE
    ELSE IF allowedPaths.has
            /\ ~CanonIsAllowed(RemovePrefix(absPath, Root), allowedPaths.set)
    THEN FALSE
    ELSE TRUE

\* FSInputAccessorImpl::checkAllowed: the trace of the check
CheckAllowed(absPath) == CheckEv(absPath, IsAllowed(absPath))

\* readFile that reads before it checks
ReadFileEager(path) ==
    LET abs == MakeAbsPath(path)
        read == Append(abs.ops, FsEv("readFile", abs.path))
        t == Append(read, CheckAllowed(abs.path))
        r == OsLookup(Fs, abs.path, TRUE)
    IN  IF ~IsAllowed(abs.path) THEN Failed("Forbidden", t)
        ELSE IF r.ok /\ Fs[r.path].type = "reg"
        THEN Result("ok", "", FALSE, Fs[r.path].data, <<>>, <<>>, TRUE, t)
        ELSE Failed(IF r.ok THEN "SysError" ELSE "NotFound", t)

\* FSInputAccessorImpl::readFile
ReadFile(path) ==
    LET abs == MakeAbsPath(path)
        t1 == Append(abs.ops, CheckAllowed(abs.path))
    IN  IF ~IsAllowed(abs.path) THEN Failed("Forbidden", t1)
        ELSE LET t2 == Append(t1, FsEv("readFile", abs.path))
                 r == OsLookup(Fs, abs.path, TRUE)
             IN  IF r.ok /\ Fs[r.path].type = "reg"
                 THEN Result("ok", "", FALSE, Fs[r.path].data, <<>>, <<>>, TRUE, t2)
                 ELSE Failed(IF r.ok THEN "SysError" ELSE "NotFound", t2)

\* FSInputAccessorImpl::pathExists
PathExists(path) ==
    LET abs == MakeAbsPath(path)
        t1 == Append(abs.ops, CheckAllowed(abs.path))
    IN  IF ~IsAllowed(abs.path)
        THEN Result("ok", "", FALSE, <<>>, <<>>, <<>>, FALSE, t1)
        ELSE LET t2 == Append(t1, FsEv("pathExists", abs.path))
                 r == OsLookup(Fs, abs.path, FALSE)
             IN  Result("ok", "", FALSE, <<>>, <<>>, <<>>, r.ok, t2)

\* the Type of a st_mode
TypeOfMode(type) ==
    IF type = "reg" THEN "tRegular"
    ELSE IF type = "dir" THEN "tDirectory"
    ELSE IF type = "lnk" THEN "tSymlink"
    ELSE "tMisc"

\* lstat on the unresolved path
LstatUnresolved(path) ==
    LET abs == MakeAbsPathUnresolved(path)
        t1 == Append(abs.ops, CheckAllowed(abs.path))
    IN  IF ~IsAllowed(abs.path) THEN Failed("Forbidden", t1)
        ELSE LET t2 == Append(t1, FsEv("lstat", abs.path))
                 r == OsLookup(Fs, abs.path, FALSE)
             IN  IF ~r.ok THEN Failed("NotFound", t2)
                 ELSE Result("ok", TypeOfMode(Fs[r.path].type),
                             Fs[r.path].type = "reg" /\ Fs[r.path].exec,
                             <<>>, <<>>, <<>>, TRUE, t2)

\* FSInputAccessorImpl::lstat
Lstat(path) ==
    LET abs == MakeAbsPath(path)
        t1 == Append(abs.ops, CheckAllowed(abs.path))
    IN  IF ~IsAllowed(abs.path) THEN Failed("Forbidden", t1)
        ELSE LET t2 == Append(t1, FsEv("lstat", abs.path))
                 r == OsLookup(Fs, abs.path, FALSE)
             IN  IF ~r.ok THEN Failed("NotFound", t2)
                 ELSE Result("ok", TypeOfMode(Fs[r.path].type),
                             Fs[r.path].type = "reg" /\ Fs[r.path].exec,
                             <<>>, <<>>, <<>>, TRUE, t2)

\* the optional<Type> of a dirent's d_type ("" is nullopt)
TypeOfDirent(type) ==
    IF type = "reg" THEN "tRegular"
    ELSE IF type = "lnk" THEN "tSymlink"
    ELSE IF type = "dir" THEN "tDirectory"
    ELSE ""

\* the loop of readDirectory: keep the entries isAllowed admits
RECURSIVE FilterEntries(_, _, _)
FilterEntries(absPath, dir, names) ==
    IF names = <<>> THEN [entries |-> <<>>, checks |-> <<>>]
    ELSE LET name == Head(names)
             child == Append(absPath, name)
             rest == FilterEntries(absPath, dir, Tail(names))
             entry == [name |-> name, type |-> TypeOfDirent(Fs[Append(dir, name)].type)]
         IN  [entries |-> IF IsAllowed(child) THEN <<entry>> \o rest.entries
                          ELSE rest.entries,
              checks |-> <<CheckAllowed(child)>> \o rest.checks]

\* FSInputAccessorImpl::readDirectory, the directory enumerated in `order`
ReadDirectoryIn(path, order) ==
    LET abs == MakeAbsPath(path)
        t1 == Append(abs.ops, CheckAllowed(abs.path))
    IN  IF ~IsAllowed(abs.path) THEN Failed("Forbidden", t1)
        ELSE LET t2 == Append(t1, FsEv("readDirectory", abs.path))
                 r == OsLookup(Fs, abs.path, TRUE)
             IN  IF ~r.ok THEN Failed("NotFound", t2)
                 ELSE IF Fs[r.path].type # "dir" THEN Failed("SysError", t2)
                 ELSE LET names == Enumerate(ChildNames(Fs, r.path), order)
                          f == FilterEntries(abs.path, r.path, names)
                      IN  Result("ok", "", FALSE, <<>>, f.entries, <<>>, TRUE,
                                 t2 \o f.checks)

\* FSInputAccessorImpl::readDirectory
ReadDirectory(path) == ReadDirectoryIn(path, dirOrder)

\* FSInputAccessorImpl::readLink
ReadLink(path) ==
    LET abs == MakeAbsPath(path)
        t1 == Append(abs.ops, CheckAllowed(abs.path))
    IN  IF ~IsAllowed(abs.path) THEN Failed("Forbidden", t1)
        ELSE LET t2 == Append(t1, FsEv("readLink", abs.path))
                 r == OsLookup(Fs, abs.path, FALSE)
             IN  IF ~r.ok THEN Failed("NotFound", t2)
                 ELSE IF Fs[r.path].type # "lnk" THEN Failed("SysError", t2)
                 ELSE Result("ok", "", FALSE, <<>>, <<>>, Fs[r.path].target,
                             TRUE, t2)

\* FSInputAccessorImpl::hasAccessControl
HasAccessControl == allowedPaths.has

Call(op, path, res) == [op |-> op, path |-> path, res |-> res]

\* FSInputAccessorImpl::allowPath
AllowPath(path) ==
    /\ Cardinality(allowedPaths.set \cup {path}) <= MaxAllowed
    /\ allowedPaths' = IF allowedPaths.has
                       THEN AllowList(allowedPaths.set \cup {path})
                       ELSE allowedPaths
    /\ deniedGrants' = IF allowedPaths.has /\ ~IsAllowed(MakeAbsPath(path).path)
                       THEN deniedGrants \cup {path}
                       ELSE deniedGrants
    /\ last' = Call("allowPath", path, NoResult)
    /\ UNCHANGED <<fsVars, dumpVars, ctrVars>>

DoReadFile(path) ==
    /\ last' = Call("readFile", path, ReadFile(path))
    /\ UNCHANGED <<fsVars, allowedPaths, deniedGrants, dumpVars, ctrVars>>

DoPathExists(path) ==
    /\ last' = Call("pathExists", path, PathExists(path))
    /\ UNCHANGED <<fsVars, allowedPaths, deniedGrants, dumpVars, ctrVars>>

DoLstat(path) ==
    /\ last' = Call("lstat", path, Lstat(path))
    /\ UNCHANGED <<fsVars, allowedPaths, deniedGrants, dumpVars, ctrVars>>

DoReadDirectory(path) ==
    /\ last' = Call("readDirectory", path, ReadDirectory(path))
    /\ UNCHANGED <<fsVars, allowedPaths, deniedGrants, dumpVars, ctrVars>>

DoReadLink(path) ==
    /\ last' = Call("readLink", path, ReadLink(path))
    /\ UNCHANGED <<fsVars, allowedPaths, deniedGrants, dumpVars, ctrVars>>

-----------------------------------------------------------------------------
(* The accessor as dumpPath sees it: its virtual methods *)

FsAccessorIn(order) ==
    [lstat |-> [p \in Paths |-> Lstat(p)],
     readFile |-> [p \in Paths |-> ReadFile(p)],
     readDirectory |-> [p \in Paths |-> ReadDirectoryIn(p, order)],
     readLink |-> [p \in Paths |-> ReadLink(p)]]

FsAccessor == FsAccessorIn(dirOrder)

-----------------------------------------------------------------------------
(* InputAccessor::dumpPath *)

\* what is written to the sink: strings, integers, raw bytes
Tok(k, s, n, b, p) == [k |-> k, s |-> s, n |-> n, b |-> b, p |-> p]
Str(s) == Tok("str", s, 0, <<>>, <<>>)
Num(n) == Tok("num", "", n, <<>>, <<>>)
Raw(b) == Tok("raw", "", 0, b, <<>>)
\* the string readLink returned
LinkStr(p) == Tok("link", "", 0, <<>>, p)

narVersionMagic1 == Str("nix-archive-1")

Zeros(n) == [i \in 1..n |-> 0]

\* writePadding(len, sink)
WritePadding(len) ==
    IF len % 8 # 0 THEN <<Raw(Zeros(8 - (len % 8)))>> ELSE <<>>

\* the state of a dump: the sink, the exception raised, the calls made
Emit(acc, toks) == [acc EXCEPT !.out = @ \o toks]
Throw(acc, status) == [acc EXCEPT !.status = status]
LogEv(call, path, at, type) ==
    [call |-> call, path |-> path, at |-> at, type |-> type]
Note(acc, call, path, type) ==
    [acc EXCEPT !.log = Append(@, LogEv(call, path, Len(acc.out), type))]

\* unhacked.emplace into a container that keeps the insertion order
MapEmplaceUnordered(m, key) ==
    IF \E i \in 1..Len(m) : m[i] = key THEN m ELSE Append(m, key)

\* std::map<std::string, std::string>::emplace(key, key): the keys stay
\* sorted, a key already there is left alone
MapEmplace(m, key) ==
    IF \E i \in 1..Len(m) : m[i] = key THEN m
    ELSE LET k == Cardinality({ i \in 1..Len(m) : StrLess(m[i], key) })
         IN  SubSeq(m, 1, k) \o <<key>> \o SubSeq(m, k + 1, Len(m))

\* the loop over readDirectory(path) that fills unhacked
RECURSIVE Unhacked(_, _)
Unhacked(entries, m) ==
    IF entries = <<>> THEN m
    ELSE Unhacked(Tail(entries), MapEmplace(m, Head(entries).name))

\* a filter that lets every entry through
KeepAll(rej, path) == TRUE

\* filter((path + i.first).abs())
Keep(rej, path) == path \notin rej

\* dumpContents with the padding forgotten
DumpContentsUnpadded(A, path, acc) ==
    LET s == A.readFile[path]
        a1 == Note(acc, "readFile", path, "")
    IN  IF s.status # "ok" THEN Throw(a1, s.status)
        ELSE Emit(a1, <<Str("contents"), Num(Len(s.data)), Raw(s.data)>>)

\* the lambda dumpContents
DumpContents(A, path, acc) ==
    LET s == A.readFile[path]
        a1 == Note(acc, "readFile", path, "")
    IN  IF s.status # "ok" THEN Throw(a1, s.status)
        ELSE Emit(a1, <<Str("contents"), Num(Len(s.data)), Raw(s.data)>>
                      \o WritePadding(Len(s.data)))

\* the lambda dump, and its loop over unhacked
RECURSIVE Dump(_, _, _, _), DumpEntries(_, _, _, _, _)
DumpEntries(A, rej, path, names, acc) ==
    IF names = <<>> \/ acc.status # "ok" THEN acc
    ELSE LET child == Append(path, Head(names))
             a1 == Note(acc, "filter", child, "")
             a2 == IF Keep(rej, child)
                   THEN LET b1 == Emit(a1, <<Str("entry"), Str("("), Str("name"),
                                             Str(Head(names)), Str("node")>>)
                            b2 == Dump(A, rej, child, b1)
                        IN  IF b2.status # "ok" THEN b2
                            ELSE Emit(b2, <<Str(")")>>)
                   ELSE a1
         IN  DumpEntries(A, rej, path, Tail(names), a2)

Dump(A, rej, path, acc) ==
    LET st == A.lstat[path]
        a1 == Note(acc, "lstat", path, IF st.status = "ok" THEN st.type ELSE "")
    IN  IF st.status # "ok" THEN Throw(a1, st.status)
        ELSE LET a2 == Emit(a1, <<Str("(")>>)
                 a3 ==
                    IF st.type = "tRegular"
                    THEN LET b1 == Emit(a2, <<Str("type"), Str("regular")>>)
                             b2 == IF st.exec
                                   THEN Emit(b1, <<Str("executable"), Str("")>>)
                                   ELSE b1
                         IN  DumpContents(A, path, b2)
                    ELSE IF st.type = "tDirectory"
                    THEN LET b1 == Emit(a2, <<Str("type"), Str("directory")>>)
                             d == A.readDirectory[path]
                             b2 == Note(b1, "readDirectory", path, "")
                         IN  IF d.status # "ok" THEN Throw(b2, d.status)
                             ELSE DumpEntries(A, rej, path,
                                              Unhacked(d.entries, <<>>), b2)
                    ELSE IF st.type = "tSymlink"
                    THEN LET b1 == Emit(a2, <<Str("type"), Str("symlink"),
                                              Str("target")>>)
                             l == A.readLink[path]
                             b2 == Note(b1, "readLink", path, "")
                         IN  IF l.status # "ok" THEN Throw(b2, l.status)
                             ELSE Emit(b2, <<LinkStr(l.target)>>)
                    ELSE Throw(a2, "UnsupportedType")
             IN  IF a3.status # "ok" THEN a3
                 ELSE Note(Emit(a3, <<Str(")")>>), "done", path, st.type)

\* InputAccessor::dumpPath(path, sink, filter); checkInterrupt() finds no
\* interrupt pending
DumpPath(A, rej, path) ==
    LET r == Dump(A, rej, path,
                  [out |-> <<narVersionMagic1>>, status |-> "ok", log |-> <<>>])
    IN  [path |-> path, out |-> r.out, status |-> r.status, log |-> r.log]

NoDump == [path |-> <<>>, out |-> <<>>, status |-> "none", log |-> <<>>]

CtrInit ==
    /\ nextNumber = 0
    /\ number = <<>>
    /\ pc = [t \in 1..NumThreads |-> "idle"]
    /\ reg = [t \in 1..NumThreads |-> 0]
    /\ cur = [t \in 1..NumThreads |-> 0]
    /\ built = {}
    /\ builtBefore = <<>>

\* makeFSInputAccessor(root, allowedPaths) over each physical tree
Init ==
    /\ linkTarget \in LinkTargets
    /\ fileLen = 7
    /\ fileExec = TRUE
    /\ dirOrder = <<3, 1, 2>>
    /\ allowedPaths \in {NoAllowList, AllowList({})}
    /\ deniedGrants = {}
    /\ last = Call("none", <<>>, NoResult)
    /\ rejected = {}
    /\ dumped = NoDump
    /\ CtrInit

Next ==
    \E path \in Paths :
        \/ AllowPath(path)
        \/ DoReadFile(path)
        \/ DoPathExists(path)
        \/ DoLstat(path)
        \/ DoReadDirectory(path)
        \/ DoReadLink(path)

Spec == Init /\ [][Next]_vars

-----------------------------------------------------------------------------
(* Serialising trees *)

\* the filters: each rejects at most one path
Filters == {{}} \cup { {p} : p \in Paths \ {<<>>} }

DoDumpPath(path) ==
    /\ dumped' = DumpPath(FsAccessor, rejected, path)
    /\ UNCHANGED <<fsVars, accVars, rejected, ctrVars>>

InitDump ==
    /\ linkTarget \in LinkTargets
    /\ fileLen \in 0..MaxLen
    /\ fileExec \in BOOLEAN
    /\ dirOrder \in Orders
    /\ allowedPaths = NoAllowList
    /\ deniedGrants = {}
    /\ last = Call("none", <<>>, NoResult)
    /\ rejected \in Filters
    /\ dumped = NoDump
    /\ CtrInit

NextDump == \E path \in {<<>>, <<"sub">>, <<"run.sh">>, <<"link">>} : DoDumpPath(path)

SpecDump == InitDump /\ [][NextDump]_vars

-----------------------------------------------------------------------------
(* InputAccessor::InputAccessor(): number(++nextNumber) *)

Threads == 1..NumThreads

\* nextNumber++ : the value before the increment
PostIncrement(n) == [counter |-> n + 1, value |-> n]

\* ++nextNumber on std::atomic<size_t>: one indivisible read-modify-write
\* that yields the new value (no wrap-around within MaxAccessors)
PreIncrement(n) == [counter |-> n + 1, value |-> n + 1]

\* a thread enters the constructor of a new accessor
Begin(t) ==
    /\ pc[t] = "idle"
    /\ Len(number) < MaxAccessors
    /\ number' = Append(number, -1)
    /\ builtBefore' = Append(builtBefore, built)
    /\ cur' = [cur EXCEPT ![t] = Len(number) + 1]
    /\ pc' = [pc EXCEPT ![t] = "increment"]
    /\ UNCHANGED <<fsVars, accVars, dumpVars, nextNumber, reg, built>>

\* the atomic ++nextNumber
Increment(t) ==
    /\ pc[t] = "increment"
    /\ nextNumber' = PreIncrement(nextNumber).counter
    /\ reg' = [reg EXCEPT ![t] = PreIncrement(nextNumber).value]
    /\ pc' = [pc EXCEPT ![t] = "store"]
    /\ UNCHANGED <<fsVars, accVars, dumpVars, number, cur, built, builtBefore>>

\* the member initialiser stores the value; the constructor returns
Store(t) ==
    /\ pc[t] = "store"
    /\ number' = [number EXCEPT ![cur[t]] = reg[t]]
    /\ built' = built \cup {cur[t]}
    /\ pc' = [pc EXCEPT ![t] = "idle"]
    /\ UNCHANGED <<fsVars, accVars, dumpVars, nextNumber, reg, cur, builtBefore>>

InitCounter ==
    /\ linkTarget = <<"d", "target">>
    /\ fileLen = 7
    /\ fileExec = TRUE
    /\ dirOrder = <<1, 2, 3>>
    /\ allowedPaths = NoAllowList
    /\ deniedGrants = {}
    /\ last = Call("none", <<>>, NoResult)
    /\ rejected = {}
    /\ dumped = NoDump
    /\ CtrInit

NextCounter == \E t \in Threads : Begin(t) \/ Increment(t) \/ Store(t)

SpecCounter == InitCounter /\ [][NextCounter]_vars

-----------------------------------------------------------------------------
(* Properties of the sandboxed accessor, under Spec *)

ReadOps == {"readFile", "pathExists", "lstat", "readDirectory", "readLink"}

IsRead == last.op \in ReadOps

\* the call was refused: pathExists answers false, the others raise Forbidden
\* and return nothing
Refused(call) ==
    IF call.op = "pathExists"
    THEN call.res.status = "ok" /\ ~call.res.exists
    ELSE /\ call.res.status = "Forbidden"
         /\ call.res.data = <<>> /\ call.res.entries = <<>>
         /\ call.res.target = <<>> /\ call.res.type = ""

\* root + path is on disk
Present(path) == OsLookup(Fs, Root \o path, FALSE).ok

\* the operation suits the kind of file at root + path
Applicable(op, path) ==
    LET here == OsLookup(Fs, Root \o path, FALSE)
        there == OsLookup(Fs, Root \o path, TRUE)
    IN  CASE op = "readFile" -> there.ok /\ Fs[there.path].type = "reg"
          [] op = "readDirectory" -> there.ok /\ Fs[there.path].type = "dir"
          [] op = "readLink" -> here.ok /\ Fs[here.path].type = "lnk"
          [] OTHER -> TRUE

Succeeded(call) ==
    IF call.op = "pathExists" THEN call.res.status = "ok" /\ call.res.exists
    ELSE call.res.status = "ok"

\* C1: with an allow-list, a path the allow-list does not permit is refused
\* by pathExists (false, no exception), lstat and readFile (Forbidden, no
\* data).
C1_UnlistedPathRefused ==
    ( /\ allowedPaths.has
      /\ last.op \in {"pathExists", "lstat", "readFile"}
      /\ ~CanonIsAllowed(last.path, allowedPaths.set) )
    => Refused(last)

\* C2: without an allow-list, a read of a path that resolves inside the root
\* is permitted, and a path that resolves outside the root is refused, also
\* when a symlink inside the root leads there and the target exists.
C2_RootConfinement ==
    (IsRead /\ ~allowedPaths.has) =>
        LET r == ResolveSymlinks(Fs, Root \o last.path)
            inside == IsWithin(r.path, Root)
        IN  /\ (r.ok /\ inside) =>
                /\ last.res.status # "Forbidden"
                /\ last.op = "pathExists" => last.res.exists
                /\ \E i \in 1..Len(last.res.trace) :
                       last.res.trace[i] = CheckEv(r.path, TRUE)
            /\ (r.ok /\ ~inside) =>
                /\ Refused(last)
                /\ \E i \in 1..Len(last.res.trace) :
                       last.res.trace[i] = CheckEv(r.path, FALSE)

C2_Witness ==
    /\ ~allowedPaths.has
    /\ last.op = "readFile" /\ last.path = <<"link">>
    /\ linkTarget = <<"e", "x">> /\ linkTarget \in DOMAIN Fs
    /\ last.res.status = "Forbidden"

\* C3 as stated: once allowPath(p) was called, every read of a present p
\* that suits its type succeeds, whatever p is.
C3_GrantedPathReadable ==
    ( /\ IsRead /\ allowedPaths.has
      /\ last.path \in allowedPaths.set
      /\ Present(last.path) /\ Applicable(last.op, last.path) )
    => Succeeded(last)

\* C3 amended: once allowPath(p) was called, every read of a present p
\* that suits its type succeeds when makeAbsPath leaves root + p as it is
\* (no symlink in it resolves); when root + p resolves to another location
\* the read is refused unless that location is inside the root and permitted
\* by the allow-list itself.
C3_GrantedUnaliasedPathReadable ==
    ( /\ IsRead /\ allowedPaths.has
      /\ last.path \in allowedPaths.set
      /\ Present(last.path) )
    => LET abs == MakeAbsPath(last.path).path
       IN  /\ (abs = Root \o last.path /\ Applicable(last.op, last.path))
                => Succeeded(last)
           /\ ( /\ abs # Root \o last.path
                /\ \/ ~IsWithin(abs, Root)
                   \/ ~CanonIsAllowed(RemovePrefix(abs, Root), allowedPaths.set) )
                => Refused(last)

C3_Witness ==
    /\ last.op = "readFile" /\ last.res.status = "ok"
    /\ last.path \in deniedGrants
    /\ last.path \in allowedPaths.set
    /\ MakeAbsPath(last.path).path = Root \o last.path

\* C4 as stated: in every read the filesystem is consulted only after an
\* access check has passed, and a refused call consults it not at all.
C4_CheckBeforeAnyFilesystemUse ==
    IsRead =>
        LET t == last.res.trace
        IN  /\ \A i \in 1..Len(t) :
                   t[i].kind = "fs" =>
                       \E j \in 1..(i - 1) : t[j].kind = "check" /\ t[j].ok
            /\ Refused(last) => \A i \in 1..Len(t) : t[i].kind # "fs"

\* C4 amended: every read first resolves symlinks (lstat and readlink of the
\* path's components), then checks the resulting path, and only after that
\* check has passed performs its own filesystem operation, on that path; a
\* call whose check fails does nothing after the check.
C4_CheckBeforeOwnOperation ==
    IsRead =>
        LET t == last.res.trace
        IN  \E k \in 1..Len(t) :
                /\ t[k].kind = "check"
                /\ \A i \in 1..(k - 1) :
                       t[i].kind = "fs" /\ t[i].op \in {"lstat", "readlink"}
                /\ ~t[k].ok => (Len(t) = k /\ Refused(last))
                /\ \A i \in (k + 1)..Len(t) :
                       t[i].kind = "fs" =>
                           t[k].ok /\ t[i].op = last.op /\ t[i].path = t[k].path

C4_Witness ==
    /\ last.op = "readFile" /\ last.res.status = "Forbidden"
    /\ Len(last.res.trace) > 1
    /\ last.res.trace[1].kind = "fs"

\* C5: readDirectory of a permitted directory returns exactly the entries
\* the caller may see: a refused entry is left out without an error, and
\* lstat of a returned entry is not refused with Forbidden.
C5_ListedEntriesVisible ==
    (last.op = "readDirectory" /\ last.res.status = "ok") =>
        LET dir == ResolveSymlinks(Fs, Root \o last.path).path
            listed == { last.res.entries[i].name :
                            i \in 1..Len(last.res.entries) }
        IN  listed = { n \in ChildNames(Fs, dir) :
                           Lstat(Append(last.path, n)).status # "Forbidden" }

-----------------------------------------------------------------------------
(* Properties of dumpPath, under SpecDump *)

Dumped == dumped.status # "none"

\* the index of the lstat that opened the record closed by log event e
RecordStart(e) ==
    LET i == CHOOSE i \in 1..Len(dumped.log) :
                 dumped.log[i].call = "lstat" /\ dumped.log[i].path = e.path
    IN  dumped.log[i].at + 1

\* C6: the children of every directory are emitted in ascending order of
\* name, so the output does not depend on the order in which the accessor
\* enumerates a directory.
C6_SortedChildren ==
    Dumped =>
        /\ \A i, j \in 1..Len(dumped.log) :
               ( /\ i < j
                 /\ dumped.log[i].call = "filter"
                 /\ dumped.log[j].call = "filter"
                 /\ Front(dumped.log[i].path) = Front(dumped.log[j].path) )
               => StrLess(Last(dumped.log[i].path), Last(dumped.log[j].path))
        /\ \A order \in {<<1, 2, 3>>, <<3, 2, 1>>} :
               LET other == DumpPath(FsAccessorIn(order), rejected, dumped.path)
               IN  other.out = dumped.out /\ other.status = dumped.status

C6_Witness ==
    /\ dumped.status = "ok" /\ dumped.path = <<>>
    /\ dirOrder = <<3, 1, 2>>
    /\ \E i \in 1..Len(dumped.log) :
           dumped.log[i].call = "done" /\ dumped.log[i].path = <<"run.sh">>

\* the entries of the dumped tree that the filter rejects
RejectedEntries ==
    { r \in rejected : IsWithin(r, dumped.path) /\ r # dumped.path }

Hidden(path) == \E r \in RejectedEntries : IsWithin(path, r)

\* the accessor with everything at and below the rejected entries changed:
\* gone, of an unsupported type, or inaccessible
Perturbed(A, mode) ==
    LET gone == Failed(IF mode = "forbidden" THEN "Forbidden" ELSE "NotFound", <<>>)
    IN  [lstat |-> [p \in Paths |->
                      IF ~Hidden(p) THEN A.lstat[p]
                      ELSE IF mode = "misc"
                      THEN Result("ok", "tMisc", FALSE, <<>>, <<>>, <<>>, TRUE, <<>>)
                      ELSE gone],
         readFile |-> [p \in Paths |-> IF Hidden(p) THEN gone ELSE A.readFile[p]],
         readLink |-> [p \in Paths |-> IF Hidden(p) THEN gone ELSE A.readLink[p]],
         readDirectory |-> [p \in Paths |->
                      IF Hidden(p) THEN gone
                      ELSE IF mode = "absent" /\ A.readDirectory[p].status = "ok"
                      THEN [A.readDirectory[p] EXCEPT !.entries =
                                SelectSeq(@, LAMBDA e : ~Hidden(Append(p, e.name)))]
                      ELSE A.readDirectory[p]]]

\* C7: the filter sees the full path of each entry before the entry is
\* visited; a rejected entry adds nothing to the output and neither it nor
\* anything below it is stat'ed or read, so trees that differ only in
\* rejected entries give the same output and the same outcome.
C7_RejectedEntriesInvisible ==
    Dumped =>
        /\ \A i \in 1..Len(dumped.log) :
               dumped.log[i].call \in {"lstat", "readFile", "readDirectory", "readLink"}
               => ~Hidden(dumped.log[i].path)
        /\ \A i \in 1..Len(dumped.log) :
               (dumped.log[i].call = "lstat" /\ dumped.log[i].path # dumped.path)
               => \E j \in 1..(i - 1) :
                      /\ dumped.log[j].call = "filter"
                      /\ dumped.log[j].path = dumped.log[i].path
        /\ \A mode \in {"absent", "misc", "forbidden"} :
               LET other == DumpPath(Perturbed(FsAccessor, mode), rejected, dumped.path)
               IN  other.out = dumped.out /\ other.status = dumped.status

C7_Witness ==
    /\ dumped.path = <<>> /\ dumped.status = "ok"
    /\ rejected = {<<"sub", "dev">>}
    /\ \E i \in 1..Len(dumped.log) :
           dumped.log[i].call = "filter" /\ dumped.log[i].path = <<"sub", "dev">>

\* C8: the record of a regular file of n bytes is "(" "type" "regular",
\* "executable" "" exactly when it is executable, "contents", n, the n
\* bytes, (8 - n mod 8) mod 8 zero bytes, ")"; the magic "nix-archive-1" is
\* the first token and occurs nowhere else.
C8_RegularFileRecord ==
    Dumped =>
        /\ dumped.out[1] = Str("nix-archive-1")
        /\ \A i \in 2..Len(dumped.out) : dumped.out[i] # Str("nix-archive-1")
        /\ \A i \in 1..Len(dumped.log) :
               LET e == dumped.log[i]
               IN  (e.call = "done" /\ e.type = "tRegular") =>
                       LET st == Lstat(e.path)
                           data == ReadFile(e.path).data
                           n == Len(data)
                           pad == (8 - (n % 8)) % 8
                       IN  SubSeq(dumped.out, RecordStart(e), e.at) =
                               <<Str("("), Str("type"), Str("regular")>>
                               \o (IF st.exec THEN <<Str("executable"), Str("")>>
                                   ELSE <<>>)
                               \o <<Str("contents"), Num(n), Raw(data)>>
                               \o (IF pad = 0 THEN <<>>
                                   ELSE <<Raw([k \in 1..pad |-> 0])>>)
                               \o <<Str(")")>>

C8_Witness ==
    /\ dumped.status = "ok" /\ dumped.path = <<"run.sh">>
    /\ fileLen = 7 /\ fileExec
    /\ Len(dumped.out) = 11
    /\ dumped.out[10] = Raw(<<0>>)

\* C10: lstat reports the type of the symlink-resolved location whenever
\* root + path resolves, so it answers Symlink only for paths that do not
\* resolve; dumpPath therefore writes a symlink record only for such paths
\* and writes a resolvable symlink as the record of its target, and readLink
\* of a resolvable symlink is applied to the target.
C10_LstatFollowsSymlinks ==
    /\ \A p \in Paths :
           LET r == ResolveSymlinks(Fs, Root \o p)
               st == Lstat(p)
               rl == ReadLink(p)
           IN  /\ (st.status = "ok" /\ r.ok) =>
                      /\ st.type = TypeOfMode(Fs[r.path].type)
                      /\ st.type # "tSymlink"
               /\ (st.status = "ok" /\ st.type = "tSymlink") => ~r.ok
               /\ (r.ok /\ Root \o p \in DOMAIN Fs /\ Fs[Root \o p].type = "lnk") =>
                      /\ rl.status # "ok"
                      /\ \A i \in 1..Len(rl.trace) :
                             rl.trace[i].op = "readLink" =>
                                 /\ rl.trace[i].path = r.path
                                 /\ rl.trace[i].path # Root \o p
    /\ Dumped =>
           \A i \in 1..Len(dumped.log) :
               LET e == dumped.log[i]
                   r == ResolveSymlinks(Fs, Root \o e.path)
               IN  (e.call = "done") =>
                       /\ e.type = "tSymlink" =>
                              /\ ~r.ok
                              /\ dumped.out[RecordStart(e) + 2] = Str("symlink")
                       /\ r.ok =>
                              /\ e.type = TypeOfMode(Fs[r.path].type)
                              /\ dumped.out[RecordStart(e) + 2] =
                                     Str(IF Fs[r.path].type = "reg" THEN "regular"
                                         ELSE "directory")

C10_Witness ==
    /\ linkTarget = <<"d", "run.sh">>
    /\ dumped.path = <<"link">> /\ dumped.status = "ok"
    /\ dumped.out[4] = Str("regular")

-----------------------------------------------------------------------------
(* Properties of the accessor numbers, under SpecCounter *)

\* C9: every constructed accessor has a number that is at least 1, differs
\* from every other accessor's, exceeds the number of every accessor built
\* before its construction began, and never changes; the counter never
\* decreases.
C9_UniqueNumbers ==
    /\ [](\A a \in built :
              /\ number[a] >= 1
              /\ \A b \in built \ {a} : number[b] # number[a]
              /\ \A b \in builtBefore[a] : number[b] < number[a])
    /\ [][ /\ nextNumber' >= nextNumber
           /\ \A a \in built : number'[a] = number[a] ]_vars

C9_Witness ==
    \E a, b \in built : a < b /\ number[b] < number[a]

====
